---- MODULE Spec2Model ----
(***************************************************************************)
(* A model of the indexing-and-retrieval pipeline of renjiie/sfa:          *)
(*   services/databaseService.ts  the index store (RxDB collection)        *)
(*   services/fileService.ts      processFile, processFolderFiles          *)
(*   services/embeddingService.ts per-modality embedding                   *)
(*   services/modelService.ts     the model sessions                       *)
(*   utils/embeddingUtils.ts      splitTextIntoChunks, averageEmbeddings   *)
(*                                                                         *)
(* Numbers: an embedding component and a distance are integers in units of *)
(* 1/60, so the default threshold 0.5 is 30.  The vectors of the store and *)
(* of the files vary in their first component only, which keeps Euclidean  *)
(* distances and the means of two or three vectors exact integers; the     *)
(* vectors handed to the averaging helper are multiples of 60.             *)
(*                                                                         *)
(* Texts are sequences of one-character strings, indexed from 0 in the     *)
(* operators that model String methods.                                    *)
(*                                                                         *)
(* The persistence engine is modelled by its query contract: a selector    *)
(* filters, a query without a sort is ordered by primary key, a limit      *)
(* truncates; insert rejects an existing primary key; update writes the    *)
(* $set fields of one document in one step.                                *)
(***************************************************************************)
EXTENDS Integers, Sequences, FiniteSets, TLC

VARIABLES
    database,         \* databaseService.ts:34  database # null
    itemsCollection,  \* databaseService.ts:35  itemsCollection # null
    docs,             \* the persisted documents of the items collection, in insertion order
    last,             \* the last completed call: operation, argument, result
    textSession,      \* modelService.ts:31  textSession # null
    visionSession,    \* modelService.ts:32  visionSession # null
    now,              \* the wall clock, in milliseconds
    lastIndex,        \* what the last processFile call did
    batch,            \* the running processFolderFiles call
    calls,            \* the storeEmbedding calls in flight, each at one of its awaits
    scan,             \* the running scanFolderForFiles call
    util              \* the last completed call of a helper: operation, argument, result

storeVars == <<database, itemsCollection, docs>>
indexVars == <<textSession, visionSession, now, lastIndex, batch, calls, scan, util>>
vars == <<database, itemsCollection, docs, last,
          textSession, visionSession, now, lastIndex, batch, calls, scan, util>>

\* ------------------------------------------------------------------ bounds

\* the store's dimension D (768 in the source), scaled down
EMBEDDING_DIM == 2
\* number of distinct ids the callers of storeEmbedding use
NumIds == 2
\* the clock runs from 0 to MaxTime
MaxTime == 1
\* the longest list of files handed to processFolderFiles
MaxBatch == 3

\* ------------------------------------------------------------------ values

\* a vector of the store's dimension whose first component is k
Vec(k) == [i \in 1..EMBEDDING_DIM |-> IF i = 1 THEN k ELSE 0]

\* a vector one component longer than the store's dimension
LongVec(k) == [i \in 1..(EMBEDDING_DIM + 1) |-> IF i = 1 THEN k ELSE 0]

\* embedding: undefined (a missing embedding has no components)
Undefined == <<>>

\* the default distance threshold 0.5, in units of 1/60
DefaultThreshold == 30

\* the default result limit
DefaultLimit == 20

Digit(n) == CASE n = 0 -> "0" [] n = 1 -> "1" [] n = 2 -> "2" [] n = 3 -> "3"
              [] n = 4 -> "4" [] n = 5 -> "5" [] n = 6 -> "6" [] n = 7 -> "7"
              [] n = 8 -> "8" [] n = 9 -> "9"

\* Number.prototype.toString(): the decimal digits of n, as a sequence of characters
RECURSIVE NumToString(_)
NumToString(n) == IF n < 10 THEN <<Digit(n)>>
                  ELSE NumToString(n \div 10) \o <<Digit(n % 10)>>

\* the character code of the characters the model's strings are made of
CharCode(c) == CASE c = "." -> 46 [] c = "/" -> 47
                 [] c = "0" -> 48 [] c = "1" -> 49 [] c = "2" -> 50 [] c = "3" -> 51
                 [] c = "4" -> 52 [] c = "5" -> 53 [] c = "6" -> 54 [] c = "7" -> 55
                 [] c = "8" -> 56 [] c = "9" -> 57
                 [] c = "_" -> 95
                 [] c = "a" -> 97 [] c = "b" -> 98 [] c = "c" -> 99 [] c = "d" -> 100

\* string comparison s < t, by character code (the order of a string primary key)
RECURSIVE StrLess(_, _)
StrLess(s, t) ==
    IF t = <<>> THEN FALSE
    ELSE IF s = <<>> THEN TRUE
    ELSE IF Head(s) # Head(t) THEN CharCode(Head(s)) < CharCode(Head(t))
    ELSE StrLess(Tail(s), Tail(t))


\* ------------------------------------------------------------------ data

\* the ids direct callers of storeEmbedding pass: "a_1", "a_2", ...
IdOf(n) == <<"a", "_">> \o NumToString(n)

StoreIds == {IdOf(n) : n \in 1..NumIds}

PathA == <<"/", "a">>
PathB == <<"/", "b">>

\* ItemDocType (without its id): what callers of storeEmbedding pass
Payloads ==
    { [path |-> PathA, type |-> "text",  embedding |-> Vec(0),     dateAdded |-> 0],
      [path |-> PathA, type |-> "text",  embedding |-> Vec(30),    dateAdded |-> 1],
      [path |-> PathB, type |-> "image", embedding |-> Vec(30),    dateAdded |-> 0],
      [path |-> PathB, type |-> "image", embedding |-> Undefined,  dateAdded |-> 1],
      [path |-> PathA, type |-> "text",  embedding |-> LongVec(0), dateAdded |-> 0] }

ItemDoc(id, p) ==
    [id |-> id, path |-> p.path, type |-> p.type,
     embedding |-> p.embedding, dateAdded |-> p.dateAdded]

StoreInputs == {ItemDoc(id, p) : id \in StoreIds, p \in Payloads}

\* no document (null)
NoDoc == [id |-> <<>>, path |-> <<>>, type |-> "none", embedding |-> <<>>, dateAdded |-> 0]

\* no query (the call was not a search)
NoQuery == [queryEmbedding |-> <<>>, limit |-> 0, threshold |-> 0, exposesDistance |-> FALSE]

ErrNone == "none"
ErrNotInitialized == "Database not initialized"
ErrStore == "Failed to store embedding"
ErrInit == "Failed to initialize database"

\* the record of a completed call
Call(op, data, query, existing, ret, list, err) ==
    [op |-> op, data |-> data, query |-> query, existing |-> existing,
     ret |-> ret, list |-> list, err |-> err]

NoCall == Call("none", NoDoc, NoQuery, NoDoc, NoDoc, <<>>, ErrNone)

\* the two storeEmbedding calls that may be in flight together
CallIds == {1, 2}

\* a storeEmbedding call: where it stands, its argument, the document its
\* lookup found, its result
StoreCall(pc, data, existing, ret, err) ==
    [pc |-> pc, data |-> data, existing |-> existing, ret |-> ret, err |-> err]

NoStoreCall == StoreCall("idle", NoDoc, NoDoc, NoDoc, ErrNone)

\* no file
NoFile == [uri |-> <<>>, type |-> "null", name |-> [stem |-> "", ext |-> ""]]

\* what a processFile call did: the file, its modality ("null": unsupported),
\* whether the embedding step threw, the record passed to storeEmbedding
\* (NoDoc: storeEmbedding was not called), the error thrown
Indexed(file, fileType, embedFailed, stored, err) ==
    [file |-> file, fileType |-> fileType, embedFailed |-> embedFailed,
     stored |-> stored, err |-> err]

NoIndex == Indexed(NoFile, "null", FALSE, NoDoc, ErrNone)

\* no processFolderFiles call is running
NoBatch == [pc |-> "idle", files |-> <<>>, hasCallback |-> FALSE, processedCount |-> 0,
            results |-> <<>>, progress |-> <<>>, attempts |-> <<>>]

\* a call of a helper: where it stands ("called", "returned"), what it was
\* given, what it returned, the error it threw
Util(op, pc, input, output, err) ==
    [op |-> op, pc |-> pc, input |-> input, output |-> output, err |-> err]

NoUtil == Util("none", "returned", <<>>, <<>>, ErrNone)

\* no scanFolderForFiles call is running
NoScan == [pc |-> "idle", root |-> <<>>, failing |-> {}, statFailing |-> {},
           hasCallback |-> FALSE, stack |-> <<>>, supportedFiles |-> <<>>,
           fileCount |-> 0, progress |-> <<>>]

\* ------------------------------------------------------------------ the store

\* a guard that forgets the collection
NotInitializedDatabaseOnly(db, coll) == ~db

\* the guard of every store operation: !database || !itemsCollection
NotInitialized(db, coll) == ~db \/ ~coll

\* itemsCollection.findOne({selector: {id}}).exec(): the position of the
\* document with that primary key, 0 when there is none
findOne(ds, id) ==
    IF \E i \in 1..Len(ds) : ds[i].id = id
    THEN CHOOSE i \in 1..Len(ds) : ds[i].id = id
    ELSE 0

\* an update whose $set leaves the embedding out
updateDateOnly(doc, data) == [doc EXCEPT !.dateAdded = data.dateAdded]

\* an update that replaces the whole document by the new data
updateReplace(doc, data) == data

\* existing.update({$set: {embedding, dateAdded}}): the document after the write
update(doc, data) ==
    [doc EXCEPT !.embedding = data.embedding, !.dateAdded = data.dateAdded]

\* itemsCollection.insert(data): the collection after the write
insert(ds, data) == Append(ds, data)

\* an insert that accepts a primary key the collection already holds
PrimaryKeyConflictNever(ds, data) == FALSE

\* insert rejects a document whose primary key (primaryKey: "id") is taken
PrimaryKeyConflict(ds, data) == findOne(ds, data.id) # 0

\* the write storeEmbedding makes after its lookup returned existing (NoDoc: null)
\* on the collection ds; rejectsStale says whether the engine rejects an update
\* through a document that was written since it was read
writeStep(ds, existing, data, rejectsStale) ==
    IF existing # NoDoc
    THEN LET i == findOne(ds, data.id) IN
         IF ds[i] # existing /\ rejectsStale
         THEN [docs |-> ds, ret |-> NoDoc, err |-> ErrStore]
         ELSE [docs |-> [ds EXCEPT ![i] = update(ds[i], data)],
               ret |-> update(ds[i], data), err |-> ErrNone]
    ELSE IF PrimaryKeyConflict(ds, data)
         THEN [docs |-> ds, ret |-> NoDoc, err |-> ErrStore]
         ELSE [docs |-> insert(ds, data), ret |-> data, err |-> ErrNone]

\* the document findOne resolves to (NoDoc: null)
lookupStep(ds, data) ==
    IF findOne(ds, data.id) # 0 THEN ds[findOne(ds, data.id)] ELSE NoDoc

\* storeEmbedding(data) run to completion on the collection ds:
\* the collection afterwards, the document found, the value returned, the error thrown
storeEmbeddingResult(db, coll, ds, data) ==
    IF NotInitialized(db, coll)
    THEN [docs |-> ds, existing |-> NoDoc, ret |-> NoDoc, err |-> ErrNotInitialized]
    ELSE LET existing == lookupStep(ds, data)
             w == writeStep(ds, existing, data, TRUE)
         IN [docs |-> w.docs, existing |-> existing, ret |-> w.ret, err |-> w.err]

storeEmbedding(data) ==
    LET r == storeEmbeddingResult(database, itemsCollection, docs, data) IN
    /\ docs' = r.docs
    /\ last' = Call("storeEmbedding", data, NoQuery, r.existing, r.ret, <<>>, r.err)
    /\ UNCHANGED <<database, itemsCollection>>
    /\ UNCHANGED indexVars

\* initializeDatabase(): outcome says which awaited step fails, if any
InitOutcomes == {"ok", "createRxDatabaseFails", "addCollectionsFails"}

initializeDatabase(outcome) ==
    /\ IF database
       THEN /\ last' = Call("initializeDatabase", NoDoc, NoQuery, NoDoc, NoDoc, <<>>, ErrNone)
            /\ UNCHANGED <<database, itemsCollection, docs>>
       ELSE /\ database' = (outcome # "createRxDatabaseFails")
            /\ itemsCollection' = (outcome = "ok")
            /\ last' = Call("initializeDatabase", NoDoc, NoQuery, NoDoc, NoDoc, <<>>,
                             IF outcome = "ok" THEN ErrNone ELSE ErrInit)
            /\ UNCHANGED docs
    /\ UNCHANGED indexVars

\* cleanupDatabase(): closes the instance; the persisted documents stay
cleanupDatabase ==
    /\ database' = FALSE
    /\ itemsCollection' = IF database THEN FALSE ELSE itemsCollection
    /\ last' = Call("cleanupDatabase", NoDoc, NoQuery, NoDoc, NoDoc, <<>>, ErrNone)
    /\ UNCHANGED docs
    /\ UNCHANGED indexVars

\* ------------------------------------------------------------------ search

\* the square root of a perfect square
Sqrt(n) == CHOOSE r \in 0..n : r * r = n

RECURSIVE SumSquares(_, _, _)
SumSquares(a, b, i) ==
    IF i > Len(a) THEN 0
    ELSE (a[i] - b[i]) * (a[i] - b[i]) + SumSquares(a, b, i + 1)

\* $euclideanDistance: defined for two vectors of the same length
HasDistance(a, b) == Len(a) = Len(b) /\ Len(a) > 0

EuclideanDistance(a, b) == Sqrt(SumSquares(a, b, 1))

\* the selector {embedding: {$vector: {$euclideanDistance, $maxDistance}}}
MatchesSelector(doc, queryEmbedding, maxDistance) ==
    /\ HasDistance(doc.embedding, queryEmbedding)
    /\ EuclideanDistance(doc.embedding, queryEmbedding) <= maxDistance

\* ds with doc put before the first document whose primary key is larger
RECURSIVE InsertByPrimaryKey(_, _)
InsertByPrimaryKey(ds, doc) ==
    IF ds = <<>> THEN <<doc>>
    ELSE IF StrLess(doc.id, Head(ds).id) THEN <<doc>> \o ds
    ELSE <<Head(ds)>> \o InsertByPrimaryKey(Tail(ds), doc)

\* a query that names no sort is ordered by the primary key
RECURSIVE SortByPrimaryKey(_)
SortByPrimaryKey(ds) ==
    IF ds = <<>> THEN <<>>
    ELSE InsertByPrimaryKey(SortByPrimaryKey(Tail(ds)), Head(ds))

Take(ds, n) == SubSeq(ds, 1, IF n < Len(ds) THEN n ELSE Len(ds))

\* a query whose selector is not applied
findByVectorNoSelector(ds, queryEmbedding, maxDistance, limit) ==
    Take(SortByPrimaryKey(ds), limit)

\* itemsCollection.find({selector: {embedding: {$vector: ...}}, limit}).exec()
findByVector(ds, queryEmbedding, maxDistance, limit) ==
    Take(SortByPrimaryKey(SelectSeq(ds,
            LAMBDA doc : MatchesSelector(doc, queryEmbedding, maxDistance))),
         limit)

\* a score: the rational num / den
Rational(num, den) == [num |-> num, den |-> den]

\* data.score = typeof distance === "number" ? 1 - distance / threshold : 1
\* (doc.get("_distance") is a number exactly when the engine exposes it)
Score(doc, queryEmbedding, threshold, exposesDistance) ==
    IF exposesDistance
    THEN Rational(threshold - EuclideanDistance(doc.embedding, queryEmbedding), threshold)
    ELSE Rational(1, 1)

WithScore(doc, score) ==
    [id |-> doc.id, path |-> doc.path, type |-> doc.type,
     embedding |-> doc.embedding, dateAdded |-> doc.dateAdded, score |-> score]

\* searchByVector(queryEmbedding, limit, threshold) on an initialized store
searchByVectorResult(ds, queryEmbedding, limit, threshold, exposesDistance) ==
    LET results == findByVector(ds, queryEmbedding, threshold, limit) IN
    [i \in 1..Len(results) |->
        WithScore(results[i], Score(results[i], queryEmbedding, threshold, exposesDistance))]

searchByVector(queryEmbedding, limit, threshold, exposesDistance) ==
    LET q == [queryEmbedding |-> queryEmbedding, limit |-> limit,
              threshold |-> threshold, exposesDistance |-> exposesDistance] IN
    /\ last' = IF NotInitialized(database, itemsCollection)
               THEN Call("searchByVector", NoDoc, q, NoDoc, NoDoc, <<>>, ErrNotInitialized)
               ELSE Call("searchByVector", NoDoc, q, NoDoc, NoDoc,
                         searchByVectorResult(docs, queryEmbedding, limit, threshold,
                                              exposesDistance),
                         ErrNone)
    /\ UNCHANGED <<database, itemsCollection, docs>>
    /\ UNCHANGED indexVars

\* getAllItems(): itemsCollection.find().exec()
getAllItems ==
    /\ last' = IF NotInitialized(database, itemsCollection)
               THEN Call("getAllItems", NoDoc, NoQuery, NoDoc, NoDoc, <<>>, ErrNotInitialized)
               ELSE Call("getAllItems", NoDoc, NoQuery, NoDoc, NoDoc,
                         SortByPrimaryKey(docs), ErrNone)
    /\ UNCHANGED <<database, itemsCollection, docs>>
    /\ UNCHANGED indexVars

\* ------------------------------------------------------------------ searchFiles

ErrSearchFiles == "Failed to search files"

\* generateDeterministicEmbedding(input, EMBEDDING_DIM) on the queries of the
\* model: a fixed vector for each text
generateDeterministicEmbedding(input) ==
    CASE input = "cat" -> Vec(0)
      [] input = "dog" -> Vec(36)
      [] input = "" -> Vec(6)

\* a search that hands on the first record only
searchFilesResultFirstOnly(ds, query, limit, exposesDistance) ==
    Take(searchByVectorResult(ds, generateDeterministicEmbedding(query), limit,
                              DefaultThreshold, exposesDistance), 1)

\* what searchFiles returns once the query is embedded and the store is
\* initialized: searchByVector(queryEmbedding, limit), the threshold left to
\* its default
searchFilesResult(ds, query, limit, exposesDistance) ==
    searchByVectorResult(ds, generateDeterministicEmbedding(query), limit,
                         DefaultThreshold, exposesDistance)

\* searchFiles(...args): args is <<query>> or <<query, limit>>; getTextEmbedding
\* throws without a textSession, searchByVector on a store that is not
\* initialized, and the catch wraps either error
searchFiles(args, exposesDistance) ==
    LET query == args[1]
        limit == IF Len(args) < 2 THEN DefaultLimit ELSE args[2]
        q == [args |-> args,
              queryEmbedding |-> IF textSession THEN generateDeterministicEmbedding(query)
                                 ELSE Undefined,
              limit |-> limit, threshold |-> DefaultThreshold,
              exposesDistance |-> exposesDistance]
    IN
    /\ last' = IF ~textSession \/ NotInitialized(database, itemsCollection)
               THEN Call("searchFiles", NoDoc, q, NoDoc, NoDoc, <<>>, ErrSearchFiles)
               ELSE Call("searchFiles", NoDoc, q, NoDoc, NoDoc,
                         searchFilesResult(docs, query, limit, exposesDistance), ErrNone)
    /\ UNCHANGED <<database, itemsCollection, docs>>
    /\ UNCHANGED indexVars

\* ------------------------------------------------------------------ file types

\* String.prototype.toLowerCase on the extensions the model uses
ToLowerCase(ext) ==
    CASE ext = ".TXT" -> ".txt"
      [] ext = ".PNG" -> ".png"
      [] ext = ".MKV" -> ".mkv"
      [] ext = ".Jpg" -> ".jpg"
      [] OTHER -> ext

\* getFileExtension(filename): path.extname
getFileExtension(name) == name.ext

\* getMimeType(filename): the MIME type of the lower-cased extension, or null
getMimeType(name) ==
    LET ext == ToLowerCase(getFileExtension(name)) IN
    CASE ext = ".txt" -> "text/plain"
      [] ext = ".md" -> "text/markdown"
      [] ext = ".rtf" -> "text/rtf"
      [] ext = ".jpg" -> "image/jpeg"
      [] ext = ".jpeg" -> "image/jpeg"
      [] ext = ".png" -> "image/png"
      [] ext = ".gif" -> "image/gif"
      [] ext = ".webp" -> "image/webp"
      [] ext = ".mp4" -> "video/mp4"
      [] ext = ".mov" -> "video/quicktime"
      [] ext = ".avi" -> "video/x-msvideo"
      [] ext = ".mkv" -> "video/x-matroska"
      [] OTHER -> "null"

\* mimeType.startsWith(prefix), on the MIME types the model uses
StartsWith(mimeType, prefix) ==
    CASE prefix = "text/" ->
            mimeType \in {"text/plain", "text/markdown", "text/rtf", "text/html"}
      [] prefix = "image/" ->
            mimeType \in {"image/jpeg", "image/png", "image/gif", "image/webp",
                          "image/heic"}
      [] prefix = "video/" ->
            mimeType \in {"video/mp4", "video/quicktime", "video/x-msvideo",
                          "video/x-matroska", "video/webm"}

\* the truthiness of a string or null: null and the empty string are falsy
Truthy(s) == s \notin {"null", ""}

\* a classification that trusts a declared type alone: no fallback to the
\* extension when a type is declared
determineFileTypeDeclaredOnly(file) ==
    LET mimeType == IF Truthy(file.type) THEN file.type ELSE getMimeType(file.name)
    IN IF Truthy(mimeType) /\ StartsWith(mimeType, "text/") THEN "text"
       ELSE IF Truthy(mimeType) /\ StartsWith(mimeType, "image/") THEN "image"
       ELSE IF Truthy(mimeType) /\ StartsWith(mimeType, "video/") THEN "video"
       ELSE "null"

\* determineFileType(file): "text", "image", "video" or "null"
determineFileType(file) ==
    LET mimeType == IF Truthy(file.type) THEN file.type ELSE getMimeType(file.name)
        extension == ToLowerCase(getFileExtension(file.name))
    IN IF Truthy(mimeType) /\ StartsWith(mimeType, "text/") THEN "text"
       ELSE IF Truthy(mimeType) /\ StartsWith(mimeType, "image/") THEN "image"
       ELSE IF Truthy(mimeType) /\ StartsWith(mimeType, "video/") THEN "video"
       ELSE IF extension \in {".txt", ".md", ".rtf"} THEN "text"
       ELSE IF extension \in {".jpg", ".jpeg", ".png", ".gif", ".webp"} THEN "image"
       ELSE IF extension \in {".mp4", ".mov", ".avi", ".mkv"} THEN "video"
       ELSE "null"

\* ------------------------------------------------------------------ embedding

\* the number of frames processVideoFile samples
frameCount == 10

RECURSIVE SumAt(_, _)
\* the sum of the i-th components of the vectors of embeddings
SumAt(embeddings, i) ==
    IF embeddings = <<>> THEN 0
    ELSE Head(embeddings)[i] + SumAt(Tail(embeddings), i)

\* an average that leaves out the division by the number of vectors
averageEmbeddingsNoDivide(embeddings) ==
    IF Len(embeddings) = 1 THEN embeddings[1]
    ELSE [i \in 1..Len(embeddings[1]) |-> SumAt(embeddings, i)]

\* averageEmbeddings(embeddings), for a non-empty list
averageEmbeddings(embeddings) ==
    IF Len(embeddings) = 1 THEN embeddings[1]
    ELSE [i \in 1..Len(embeddings[1]) |-> SumAt(embeddings, i) \div Len(embeddings)]

ErrNoEmbeddings == "No embeddings to average"

\* averageEmbeddings(embeddings), the guard on the empty list included: the
\* vector returned or the error thrown
averageEmbeddingsResult(embeddings) ==
    IF Len(embeddings) = 0
    THEN [ok |-> FALSE, embedding |-> Undefined, err |-> ErrNoEmbeddings]
    ELSE [ok |-> TRUE, embedding |-> averageEmbeddings(embeddings), err |-> ErrNone]

\* the embedding getVisionEmbedding returns: preprocessImage hands it the same
\* tensor for every image, so it is one vector
VisionEmbedding == Vec(30)

\* what the embedding step of processFile produced: a vector, or an error
Embedded(ok, embedding) == [ok |-> ok, embedding |-> embedding]

\* processTextFile(filePath): content.chunks are the chunks splitTextIntoChunks
\* returns for the file's text, each with the embedding getTextEmbedding gives it
processTextFile(content, readable, txt) ==
    LET chunks == SelectSeq(content.chunks, LAMBDA c : ~c.blank)
        embeddings == [i \in 1..Len(chunks) |-> chunks[i].embedding]
    IN IF ~readable THEN Embedded(FALSE, Undefined)
       ELSE IF Len(chunks) > 0 /\ ~txt THEN Embedded(FALSE, Undefined)
       ELSE IF Len(embeddings) > 1 THEN Embedded(TRUE, averageEmbeddings(embeddings))
       ELSE IF Len(embeddings) = 1 THEN Embedded(TRUE, embeddings[1])
       ELSE Embedded(TRUE, Undefined)

\* processImageFile(filePath)
processImageFile(content, readable, vis) ==
    IF ~readable \/ ~vis THEN Embedded(FALSE, Undefined)
    ELSE Embedded(TRUE, VisionEmbedding)

\* the fallback duration of a video, in milliseconds
durationMs == 10000

\* a loop over the frames that ends at the first frame that fails
frameAttemptsStopAtFailure(content, readable, vis) ==
    LET ok(i) == readable /\ vis /\ content.frames[i]
        n == IF \A i \in 1..frameCount : ok(i) THEN frameCount
             ELSE CHOOSE i \in 1..frameCount : ~ok(i) /\ \A j \in 1..(i - 1) : ok(j)
    IN [i \in 1..n |-> [time |-> ((durationMs * (i - 1)) \div frameCount), ok |-> ok(i)]]

\* the loop of processVideoFile over the frames: the time of each attempt,
\* Math.floor((durationMs / frameCount) * i) for i = 0 .. frameCount - 1, and
\* whether thumbnail, preprocessing and vision embedding all succeeded
frameAttempts(content, readable, vis) ==
    [i \in 1..frameCount |->
        [time |-> ((durationMs * (i - 1)) \div frameCount),
         ok |-> readable /\ vis /\ content.frames[i]]]

\* processVideoFile(filePath): content.frames[i] says whether the thumbnail of
\* frame i can be extracted and preprocessed
processVideoFile(content, readable, vis) ==
    LET frames == SelectSeq(frameAttempts(content, readable, vis), LAMBDA a : a.ok)
        embeddings == [i \in 1..Len(frames) |-> VisionEmbedding]
    IN IF Len(embeddings) = 0 THEN Embedded(FALSE, Undefined)
       ELSE Embedded(TRUE, averageEmbeddings(embeddings))

\* ------------------------------------------------------------------ the files of the model

NoContent == [chunks |-> <<>>, frames |-> [i \in 1..frameCount |-> FALSE]]

Chunk(blank, embedding) == [blank |-> blank, embedding |-> embedding]

\* "report.TXT": two chunks of text
TextFile == [uri |-> <<"/", "a", "b">>, type |-> "null",
             name |-> [stem |-> "report", ext |-> ".TXT"]]
\* "notes.md": whitespace only
BlankFile == [uri |-> <<"/", "c">>, type |-> "text/markdown",
              name |-> [stem |-> "notes", ext |-> ".md"]]
\* "photo.PNG"
ImageFile == [uri |-> <<"/", "a", "/", "b">>, type |-> "null",
              name |-> [stem |-> "photo", ext |-> ".PNG"]]
\* "clip.mkv": frames 1, 4 and 7 can be extracted
VideoFile == [uri |-> <<"/", "d">>, type |-> "video/x-matroska",
              name |-> [stem |-> "clip", ext |-> ".mkv"]]
\* "data.bin"
BinFile == [uri |-> <<"/", "b">>, type |-> "null",
            name |-> [stem |-> "data", ext |-> ".bin"]]

Files == {TextFile, BlankFile, ImageFile, VideoFile, BinFile}

\* the content found at a path
ContentOf(filePath) ==
    CASE filePath = TextFile.uri ->
            [NoContent EXCEPT !.chunks = <<Chunk(FALSE, Vec(0)), Chunk(FALSE, Vec(12))>>]
      [] filePath = BlankFile.uri ->
            [NoContent EXCEPT !.chunks = <<Chunk(TRUE, Undefined)>>]
      [] filePath = VideoFile.uri ->
            [NoContent EXCEPT !.frames = [i \in 1..frameCount |-> i \in {1, 4, 7}]]
      [] OTHER -> NoContent

\* ------------------------------------------------------------------ processFile

IsAlphanumeric(c) ==
    \/ CharCode(c) \in 48..57
    \/ CharCode(c) \in 65..90
    \/ CharCode(c) \in 97..122

\* generateId(filePath) at clock value t:
\* filePath.replace(/[^a-zA-Z0-9]/g, "") + "_" + new Date().getTime().toString()
generateId(filePath, t) ==
    SelectSeq(filePath, IsAlphanumeric) \o <<"_">> \o NumToString(t)

ErrUnsupported == "Unsupported file type"
ErrEmbedding == "Failed to process file"

\* the file path of a descriptor: the uris of the model carry no "file://"
\* prefix and no escapes, so both platform branches give the uri
FilePathOf(file) == file.uri

\* the embedding step: the switch on fileType
embedStep(fileType, filePath, readable, txt, vis) ==
    CASE fileType = "text" -> processTextFile(ContentOf(filePath), readable, txt)
      [] fileType = "image" -> processImageFile(ContentOf(filePath), readable, vis)
      [] fileType = "video" -> processVideoFile(ContentOf(filePath), readable, vis)

\* the last step of processFile: storeEmbedding of the new record
storeStep(db, coll, ds, filePath, fileType, embedFailed, embedding, t) ==
    LET data == [id |-> generateId(filePath, t), path |-> filePath, type |-> fileType,
                 embedding |-> embedding, dateAdded |-> t]
        r == storeEmbeddingResult(db, coll, ds, data)
    IN [docs |-> r.docs, fileType |-> fileType, embedFailed |-> embedFailed,
        stored |-> data, ret |-> r.ret, existing |-> r.existing, err |-> r.err]

\* a processFile that ignores the failure of the embedding step
processFileResultStoresAnyway(db, coll, ds, txt, vis, file, readable, t) ==
    LET fileType == determineFileType(file)
        e == IF fileType = "null" THEN Embedded(FALSE, Undefined)
             ELSE embedStep(fileType, FilePathOf(file), readable, txt, vis)
    IN storeStep(db, coll, ds, FilePathOf(file), fileType, ~e.ok, e.embedding, t)

\* processFile(file) run to completion at clock value t; readable says whether
\* the file's content can be read
processFileResult(db, coll, ds, txt, vis, file, readable, t) ==
    LET filePath == FilePathOf(file)
        fileType == determineFileType(file)
    IN IF fileType = "null"
       THEN [docs |-> ds, fileType |-> fileType, embedFailed |-> FALSE,
             stored |-> NoDoc, ret |-> NoDoc, existing |-> NoDoc, err |-> ErrUnsupported]
       ELSE LET e == embedStep(fileType, filePath, readable, txt, vis) IN
            IF ~e.ok
            THEN [docs |-> ds, fileType |-> fileType, embedFailed |-> TRUE,
                  stored |-> NoDoc, ret |-> NoDoc, existing |-> NoDoc, err |-> ErrEmbedding]
            ELSE storeStep(db, coll, ds, filePath, fileType, FALSE, e.embedding, t)

processFile(file, readable) ==
    LET r == processFileResult(database, itemsCollection, docs, textSession,
                               visionSession, file, readable, now) IN
    /\ docs' = r.docs
    /\ lastIndex' = Indexed(file, r.fileType, r.embedFailed, r.stored, r.err)
    /\ last' = Call("processFile", r.stored, NoQuery, r.existing, r.ret, <<>>, r.err)
    /\ UNCHANGED <<database, itemsCollection, textSession, visionSession, now, batch, calls, scan, util>>

\* initializeModels(): both sessions are set, or the call fails before setting any
initializeModels(ok) ==
    /\ textSession' = (textSession \/ ok)
    /\ visionSession' = (visionSession \/ ok)
    /\ last' = Call("initializeModels", NoDoc, NoQuery, NoDoc, NoDoc, <<>>,
                    IF ok THEN ErrNone ELSE "Failed to initialize models")
    /\ UNCHANGED <<database, itemsCollection, docs, now, lastIndex, batch, calls, scan, util>>

\* a millisecond passes
Tick ==
    /\ now < MaxTime
    /\ now' = now + 1
    /\ UNCHANGED <<database, itemsCollection, docs, last, textSession, visionSession,
                   lastIndex, batch, calls, scan, util>>

\* ------------------------------------------------------------------ splitTextIntoChunks

\* the longest text handed to splitTextIntoChunks
MaxTextLen == 5
\* the largest maxChunkLength handed to splitTextIntoChunks
MaxChunkLen == 3

\* the characters of the texts: a letter, a space, a line feed, two sentence ends
Chars == {"a", " ", "\n", ".", "?"}

\* the texts of at most MaxTextLen characters, each a sequence of characters
Texts == UNION {[1..n -> Chars] : n \in 0..MaxTextLen}

\* the values of maxChunkLength
ChunkLengths == 1..MaxChunkLen

\* pattern occurs in text at the (0-based) index i
MatchesAt(text, pattern, i) ==
    /\ i + Len(pattern) <= Len(text)
    /\ \A k \in 1..Len(pattern) : text[i + k] = pattern[k]

\* text.lastIndexOf(pattern, position): the largest index <= position at which
\* pattern occurs, -1 when there is none
lastIndexOf(text, pattern, position) ==
    LET found == {i \in 0..position : MatchesAt(text, pattern, i)} IN
    IF found = {} THEN -1 ELSE CHOOSE i \in found : \A j \in found : j <= i

\* Math.max of three numbers
MathMax(a, b, c) ==
    IF a >= b /\ a >= c THEN a ELSE IF b >= c THEN b ELSE c

\* a substring that leaves out the character before endIndex
substringDropsLast(text, startIndex, endIndex) ==
    SubSeq(text, startIndex + 1, (IF endIndex < Len(text) THEN endIndex ELSE Len(text)) - 1)

\* text.substring(startIndex, endIndex): endIndex is clamped to the length
substring(text, startIndex, endIndex) ==
    SubSeq(text, startIndex + 1, IF endIndex < Len(text) THEN endIndex ELSE Len(text))

\* the test made on every break: it lies after startIndex and after
\* startIndex + maxChunkLength / 2
BreakUsable(breakIndex, startIndex, maxChunkLength) ==
    /\ breakIndex > startIndex
    /\ 2 * breakIndex > 2 * startIndex + maxChunkLength

\* an iteration that cuts at the usable break that lies furthest to the right,
\* whatever its kind
chunkEndFurthest(text, startIndex, maxChunkLength) ==
    LET endIndex == startIndex + maxChunkLength
        paragraphBreak == lastIndexOf(text, <<"\n", "\n">>, endIndex)
        newlineBreak == lastIndexOf(text, <<"\n">>, endIndex)
        sentenceBreak == MathMax(lastIndexOf(text, <<".", " ">>, endIndex),
                                 lastIndexOf(text, <<"!", " ">>, endIndex),
                                 lastIndexOf(text, <<"?", " ">>, endIndex))
        spaceBreak == lastIndexOf(text, <<" ">>, endIndex)
        cuts == {c \in {paragraphBreak + 2, newlineBreak + 1, sentenceBreak + 2,
                        spaceBreak + 1} :
                    \/ c = paragraphBreak + 2
                          /\ BreakUsable(paragraphBreak, startIndex, maxChunkLength)
                    \/ c = newlineBreak + 1
                          /\ BreakUsable(newlineBreak, startIndex, maxChunkLength)
                    \/ c = sentenceBreak + 2
                          /\ BreakUsable(sentenceBreak, startIndex, maxChunkLength)
                    \/ c = spaceBreak + 1
                          /\ BreakUsable(spaceBreak, startIndex, maxChunkLength)}
    IN IF ~(endIndex < Len(text)) \/ cuts = {} THEN endIndex
       ELSE CHOOSE c \in cuts : \A d \in cuts : d <= c

\* the endIndex one iteration of the loop settles on
chunkEnd(text, startIndex, maxChunkLength) ==
    LET endIndex == startIndex + maxChunkLength
        paragraphBreak == lastIndexOf(text, <<"\n", "\n">>, endIndex)
        newlineBreak == lastIndexOf(text, <<"\n">>, endIndex)
        sentenceBreak == MathMax(lastIndexOf(text, <<".", " ">>, endIndex),
                                 lastIndexOf(text, <<"!", " ">>, endIndex),
                                 lastIndexOf(text, <<"?", " ">>, endIndex))
        spaceBreak == lastIndexOf(text, <<" ">>, endIndex)
    IN IF ~(endIndex < Len(text)) THEN endIndex
       ELSE IF BreakUsable(paragraphBreak, startIndex, maxChunkLength)
            THEN paragraphBreak + 2
       ELSE IF BreakUsable(newlineBreak, startIndex, maxChunkLength)
            THEN newlineBreak + 1
       ELSE IF BreakUsable(sentenceBreak, startIndex, maxChunkLength)
            THEN sentenceBreak + 2
       ELSE IF BreakUsable(spaceBreak, startIndex, maxChunkLength)
            THEN spaceBreak + 1
       ELSE endIndex

\* a loop that runs once more when startIndex has reached the end of the text
RECURSIVE chunksFromInclusive(_, _, _)
chunksFromInclusive(text, startIndex, maxChunkLength) ==
    IF ~(startIndex <= Len(text)) THEN <<>>
    ELSE LET endIndex == chunkEnd(text, startIndex, maxChunkLength) IN
         <<substring(text, startIndex, endIndex)>>
            \o chunksFromInclusive(text, endIndex, maxChunkLength)

\* the while loop, from startIndex on
RECURSIVE chunksFrom(_, _, _)
chunksFrom(text, startIndex, maxChunkLength) ==
    IF ~(startIndex < Len(text)) THEN <<>>
    ELSE LET endIndex == chunkEnd(text, startIndex, maxChunkLength) IN
         <<substring(text, startIndex, endIndex)>>
            \o chunksFrom(text, endIndex, maxChunkLength)

\* a splitTextIntoChunks without the early return for the empty text
splitTextIntoChunksNoEmptyCheck(text, maxChunkLength) ==
    IF Len(text) <= maxChunkLength THEN <<text>>
    ELSE chunksFrom(text, 0, maxChunkLength)

\* splitTextIntoChunks(text, maxChunkLength)
splitTextIntoChunks(text, maxChunkLength) ==
    IF Len(text) = 0 THEN <<>>
    ELSE IF Len(text) <= maxChunkLength THEN <<text>>
    ELSE chunksFrom(text, 0, maxChunkLength)

\* the call of splitTextIntoChunks returns
splitTextIntoChunksCall ==
    /\ util.op = "splitTextIntoChunks"
    /\ util.pc = "called"
    /\ util' = [util EXCEPT !.pc = "returned",
                            !.output = splitTextIntoChunks(util.input.text,
                                                           util.input.maxChunkLength)]
    /\ UNCHANGED <<database, itemsCollection, docs, last, textSession, visionSession,
                   now, lastIndex, batch, calls, scan>>

\* ------------------------------------------------------------------ scanFolderForFiles

\* the most files of one kind in a directory of the scanned trees
MaxFiles == 9

\* an item name: path.extname splits it into stem and extension; the i-th of
\* the numbered files of a directory has the number i, the other items 0
Numbered(stem, i, ext) == [stem |-> <<stem, i>>, ext |-> ext]
Name(stem, ext) == Numbered(stem, 0, ext)

\* the entries of the file system: a directory with its items in listing
\* order, a file, a name getInfoAsync reports as not existing
Dir(name, items) == [kind |-> "dir", name |-> name, items |-> items]
File(name) == [kind |-> "file", name |-> name, items |-> <<>>]
Missing(name) == [kind |-> "missing", name |-> name, items |-> <<>>]

\* n files with the same extension
NFiles(n, ext) == [i \in 1..n |-> File(Numbered("f", i, ext))]

\* a tree with n + m + 3 supported files: files before and after its
\* subdirectories, a nested subdirectory, an empty one, an unsupported file
Tree(n, m) ==
    Dir(Name("root", ""),
        <<File(Name("a", ".TXT")),
          Dir(Name("d1", ""),
              NFiles(m, ".png")
                 \o <<File(Name("x", ".bin")),
                      Dir(Name("d2", ""), <<File(Name("v", ".mkv"))>>),
                      File(Name("y", ".md"))>>),
          Missing(Name("gone", ".txt")),
          Dir(Name("d3", ""), <<>>)>>
           \o NFiles(n, ".txt"))

\* a tree without a supported file
BareTree ==
    Dir(Name("root", ""), <<File(Name("x", ".bin")), Dir(Name("d3", ""), <<>>)>>)

Trees == {Tree(n, m) : n \in 0..MaxFiles, m \in {0, MaxFiles}} \cup {BareTree}

\* paths: the sequence of the names from the root down
RootPath == <<Name("root", "")>>
D1Path == <<Name("root", ""), Name("d1", "")>>
D2Path == <<Name("root", ""), Name("d1", ""), Name("d2", "")>>
D3Path == <<Name("root", ""), Name("d3", "")>>

\* the sets of directories whose listing fails
FailingSets == SUBSET {RootPath, D1Path, D2Path, D3Path}

\* the sets of items whose getInfoAsync fails
StatFailingSets == {{}, {Append(D1Path, Name("x", ".bin"))}}

\* the entry found at a path of the tree under root
RECURSIVE NodeAt(_, _)
NodeAt(node, path) ==
    IF Len(path) = 1 THEN node
    ELSE LET i == CHOOSE i \in 1..Len(node.items) : node.items[i].name = path[2]
         IN NodeAt(node.items[i], Tail(path))

\* FileSystem.readDirectoryAsync(path): the names of the items, in listing order
readDirectoryAsync(root, path) ==
    LET items == NodeAt(root, path).items IN [i \in 1..Len(items) |-> items[i].name]

\* the activation of processFolder(path): before or after its listing, the
\* items its loop has not seen yet
Frame(path) == [path |-> path, listed |-> FALSE, items |-> <<>>]

\* the file object scanFolderForFiles builds for an item (the uri is the item
\* path, which Platform.OS "ios" prefixes with "file://"; size is not modelled)
FileObj(itemPath, itemName) ==
    [uri |-> itemPath, type |-> getMimeType(itemName), name |-> itemName]

\* an end that leaves out the final update when the total was just reported
scanReturnUnlessReported(s) ==
    [s EXCEPT !.pc = "done",
              !.progress = IF s.hasCallback /\ (s.fileCount % 10 # 0 \/ s.fileCount = 0)
                           THEN Append(@, s.fileCount) ELSE @]

\* the end of scanFolderForFiles: the final progress update and the return
scanReturn(s) ==
    [s EXCEPT !.pc = "done",
              !.progress = IF s.hasCallback THEN Append(@, s.fileCount) ELSE @]

\* processFolder returns to its caller, the outermost one to scanFolderForFiles
popFrame(s) ==
    LET t == [s EXCEPT !.stack = Tail(@)] IN
    IF t.stack = <<>> THEN scanReturn(t) ELSE t

\* a listing whose failure is not caught in processFolder and ends the scan
listStepAborts(s) ==
    IF Head(s.stack).path \in s.failing
    THEN [s EXCEPT !.pc = "failed", !.stack = <<>>]
    ELSE [s EXCEPT !.stack[1].listed = TRUE,
                   !.stack[1].items = readDirectoryAsync(s.root, Head(s.stack).path)]

\* the listing of the directory of the innermost processFolder: a failure is
\* caught and ends this processFolder
listStep(s) ==
    IF Head(s.stack).path \in s.failing
    THEN popFrame(s)
    ELSE [s EXCEPT !.stack[1].listed = TRUE,
                   !.stack[1].items = readDirectoryAsync(s.root, Head(s.stack).path)]

\* a supported file is found
foundStep(s, fileObj) ==
    [s EXCEPT !.supportedFiles = Append(@, fileObj),
              !.fileCount = @ + 1,
              !.progress = IF s.hasCallback /\ (s.fileCount + 1) % 10 = 0
                           THEN Append(@, s.fileCount + 1) ELSE @]

\* an iteration that does not descend into directories
itemStepFlat(s) ==
    LET itemName == Head(Head(s.stack).items)
        itemPath == Append(Head(s.stack).path, itemName)
        info == NodeAt(s.root, itemPath)
        rest == [s EXCEPT !.stack[1].items = Tail(@)]
    IN IF itemPath \in s.statFailing THEN popFrame(s)
       ELSE IF info.kind = "file"
            THEN IF determineFileType(FileObj(itemPath, itemName)) # "null"
                 THEN foundStep(rest, FileObj(itemPath, itemName))
                 ELSE rest
       ELSE rest

\* one iteration of the loop over the items of a directory
itemStep(s) ==
    LET itemName == Head(Head(s.stack).items)
        itemPath == Append(Head(s.stack).path, itemName)
        info == NodeAt(s.root, itemPath)
        rest == [s EXCEPT !.stack[1].items = Tail(@)]
    IN IF itemPath \in s.statFailing THEN popFrame(s)
       ELSE IF info.kind = "dir" THEN [rest EXCEPT !.stack = <<Frame(itemPath)>> \o @]
       ELSE IF info.kind = "file"
            THEN IF determineFileType(FileObj(itemPath, itemName)) # "null"
                 THEN foundStep(rest, FileObj(itemPath, itemName))
                 ELSE rest
       ELSE rest

\* scanFolderForFiles(folderPath, progressCallback) is called on the tree root;
\* failing and statFailing say which listings and which getInfoAsync calls fail
scanFolderForFilesStart(root, failing, statFailing, hasCallback) ==
    /\ scan.pc = "idle"
    /\ scan' = [NoScan EXCEPT !.pc = "running", !.root = root, !.failing = failing,
                              !.statFailing = statFailing, !.hasCallback = hasCallback,
                              !.stack = <<Frame(<<root.name>>)>>]
    /\ UNCHANGED <<database, itemsCollection, docs, last, textSession, visionSession,
                   now, lastIndex, batch, calls, util>>

\* readDirectoryAsync resolves or rejects
processFolderList ==
    /\ scan.pc = "running"
    /\ ~Head(scan.stack).listed
    /\ scan' = listStep(scan)
    /\ UNCHANGED <<database, itemsCollection, docs, last, textSession, visionSession,
                   now, lastIndex, batch, calls, util>>

\* the next item of the innermost directory is looked at
processFolderItem ==
    /\ scan.pc = "running"
    /\ Head(scan.stack).listed
    /\ Head(scan.stack).items # <<>>
    /\ scan' = itemStep(scan)
    /\ UNCHANGED <<database, itemsCollection, docs, last, textSession, visionSession,
                   now, lastIndex, batch, calls, util>>

\* the loop of the innermost processFolder is over
processFolderReturn ==
    /\ scan.pc = "running"
    /\ Head(scan.stack).listed
    /\ Head(scan.stack).items = <<>>
    /\ scan' = popFrame(scan)
    /\ UNCHANGED <<database, itemsCollection, docs, last, textSession, visionSession,
                   now, lastIndex, batch, calls, util>>

\* ------------------------------------------------------------------ calls of the embedding helpers

\* the longest list handed to averageEmbeddings
MaxVectors == 3
\* the most chunks in the content of a text file
MaxChunks == 3

\* vectors whose means over up to six vectors have whole components
EmbedVectors == {Vec(0), Vec(60), [Vec(120) EXCEPT ![EMBEDDING_DIM] = 60]}

\* the lists handed to averageEmbeddings
VectorLists == UNION {[1..n -> EmbedVectors] : n \in 0..MaxVectors}

\* the chunks of a text: blank after trim, or with the embedding getTextEmbedding gives
ChunkKinds == {Chunk(TRUE, Undefined)} \cup {Chunk(FALSE, v) : v \in EmbedVectors}

\* the contents of text files: up to MaxChunks chunks
TextContents ==
    {[NoContent EXCEPT !.chunks = chunks] :
        chunks \in UNION {[1..n -> ChunkKinds] : n \in 0..MaxChunks}}

\* the contents of video files: every set of frames that can be extracted
VideoContents ==
    {[NoContent EXCEPT !.frames = [i \in 1..frameCount |-> i \in extractable]] :
        extractable \in SUBSET (1..frameCount)}

\* the call of averageEmbeddings returns or throws
averageEmbeddingsCall ==
    /\ util.op = "averageEmbeddings"
    /\ util.pc = "called"
    /\ LET r == averageEmbeddingsResult(util.input) IN
       util' = [util EXCEPT !.pc = "returned", !.output = r.embedding, !.err = r.err]
    /\ UNCHANGED <<database, itemsCollection, docs, last, textSession, visionSession,
                   now, lastIndex, batch, calls, scan>>

\* the call of processTextFile returns or throws; session is the textSession it found
processTextFileCall ==
    /\ util.op = "processTextFile"
    /\ util.pc = "called"
    /\ LET r == processTextFile(util.input.content, util.input.readable, textSession) IN
       util' = [util EXCEPT !.pc = "returned",
                            !.output = [ok |-> r.ok, embedding |-> r.embedding,
                                        session |-> textSession],
                            !.err = IF r.ok THEN ErrNone ELSE "Failed to process text file"]
    /\ UNCHANGED <<database, itemsCollection, docs, last, textSession, visionSession,
                   now, lastIndex, batch, calls, scan>>

\* the call of processVideoFile returns or throws; session is the visionSession it found
processVideoFileCall ==
    /\ util.op = "processVideoFile"
    /\ util.pc = "called"
    /\ LET r == processVideoFile(util.input.content, util.input.readable, visionSession) IN
       util' = [util EXCEPT !.pc = "returned",
                            !.output = [ok |-> r.ok, embedding |-> r.embedding,
                                        session |-> visionSession,
                                        attempts |-> frameAttempts(util.input.content,
                                                                   util.input.readable,
                                                                   visionSession)],
                            !.err = IF r.ok THEN ErrNone ELSE "Failed to process video file"]
    /\ UNCHANGED <<database, itemsCollection, docs, last, textSession, visionSession,
                   now, lastIndex, batch, calls, scan>>

\* ------------------------------------------------------------------ written file names

\* path.extname on a file name (a sequence of characters that holds no path
\* separator): from the last "." on, and nothing when there is no ".", when the
\* only "." is the first character, or when the name is ".."
extname(filename) ==
    LET dots == {i \in 1..Len(filename) : filename[i] = "."}
        startDot == IF dots = {} THEN 0 ELSE CHOOSE i \in dots : \A j \in dots : j <= i
    IN IF startDot = 0 \/ startDot = 1 \/ filename = <<".", ".">> THEN <<>>
       ELSE SubSeq(filename, startDot, Len(filename))

\* the string a sequence of characters spells, on the extensions of the model
ExtString(chars) ==
    CASE chars = <<>> -> ""
      [] chars = <<".", "T", "X", "T">> -> ".TXT"
      [] chars = <<".", "P", "N", "G">> -> ".PNG"
      [] chars = <<".", "m", "k", "v">> -> ".mkv"
      [] chars = <<".", "b", "i", "n">> -> ".bin"
      [] chars = <<".", "t", "x", "t">> -> ".txt"
      [] chars = <<".", "m", "d">> -> ".md"
      [] chars = <<".", "r", "t", "f">> -> ".rtf"
      [] chars = <<".", "j", "p", "g">> -> ".jpg"
      [] chars = <<".", "j", "p", "e", "g">> -> ".jpeg"
      [] chars = <<".", "p", "n", "g">> -> ".png"
      [] chars = <<".", "g", "i", "f">> -> ".gif"
      [] chars = <<".", "w", "e", "b", "p">> -> ".webp"
      [] chars = <<".", "m", "p", "4">> -> ".mp4"
      [] chars = <<".", "m", "o", "v">> -> ".mov"
      [] chars = <<".", "a", "v", "i">> -> ".avi"
      [] chars = <<".", "J", "p", "g">> -> ".Jpg"
      [] chars = <<".">> -> "."

\* the file name as the model holds it: the written name, and in ext what
\* path.extname finds in it
FileName(written) == [written |-> written, ext |-> ExtString(extname(written))]

\* the file objects determineFileType is called on: every written name of
\* the model with every declared type (undefined, the empty string and content
\* types), under two uris and two sizes
Descriptors ==
    LET WrittenNames ==
        {<<"r", "e", "p", "o", "r", "t", ".", "T", "X", "T">>,
         <<"p", "h", "o", "t", "o", ".", "P", "N", "G">>,
         <<"c", "l", "i", "p", ".", "m", "k", "v">>,
         <<"d", "a", "t", "a", ".", "b", "i", "n">>, <<"a", ".", "t", "x", "t">>,
         <<"a", ".", "m", "d">>, <<"a", ".", "r", "t", "f">>, <<"a", ".", "j", "p", "g">>,
         <<"a", ".", "j", "p", "e", "g">>, <<"a", ".", "p", "n", "g">>,
         <<"a", ".", "g", "i", "f">>, <<"a", ".", "w", "e", "b", "p">>,
         <<"a", ".", "m", "p", "4">>, <<"a", ".", "m", "o", "v">>, <<"a", ".", "a", "v", "i">>,
         <<"a", ".", "m", "k", "v">>, <<"a", ".", "J", "p", "g">>, <<".", "t", "x", "t">>,
         <<"t", "x", "t">>, <<"a", ".", "t", "x", "t", ".", "b", "i", "n">>,
         <<"a", ".", "b", "i", "n", ".", "t", "x", "t">>, <<"a", ".">>, <<".", ".">>}
        DeclaredTypes ==
        {"null", "", "text/plain", "text/html", "image/png", "image/heic", "video/mp4",
         "video/webm", "application/pdf", "application/octet-stream", "TEXT/PLAIN", "text"}
    IN {[uri |-> uri, type |-> type, name |-> FileName(written), size |-> size] :
           uri \in {<<"/", "a">>, <<"/", "b">>}, type \in DeclaredTypes,
           written \in WrittenNames, size \in {0, 1}}

\* the call of determineFileType returns
determineFileTypeCall ==
    /\ util.op = "determineFileType"
    /\ util.pc = "called"
    /\ util' = [util EXCEPT !.pc = "returned", !.output = determineFileType(util.input)]
    /\ UNCHANGED <<database, itemsCollection, docs, last, textSession, visionSession,
                   now, lastIndex, batch, calls, scan>>

\* ------------------------------------------------------------------ Spec: the store module

Init ==
    /\ database = FALSE
    /\ itemsCollection = FALSE
    /\ docs = <<>>
    /\ last = NoCall
    /\ textSession = FALSE
    /\ visionSession = FALSE
    /\ now = 0
    /\ lastIndex = NoIndex
    /\ batch = NoBatch
    /\ calls = [c \in CallIds |-> NoStoreCall]
    /\ scan = NoScan
    /\ util = NoUtil

\* the state in which one of the helper calls of pending has been made on the
\* modules as loaded
InitHelper(pending) ==
    /\ database = FALSE
    /\ itemsCollection = FALSE
    /\ docs = <<>>
    /\ last = NoCall
    /\ textSession = FALSE
    /\ visionSession = FALSE
    /\ now = 0
    /\ lastIndex = NoIndex
    /\ batch = NoBatch
    /\ calls = [c \in CallIds |-> NoStoreCall]
    /\ scan = NoScan
    /\ util \in pending

Next ==
    \/ \E outcome \in InitOutcomes : initializeDatabase(outcome)
    \/ cleanupDatabase
    \/ \E data \in StoreInputs : storeEmbedding(data)
    \/ \E exposes \in BOOLEAN :
          searchByVector(Vec(30), DefaultLimit, DefaultThreshold, exposes)
    \/ getAllItems

Spec == Init /\ [][Next]_vars

\* ------------------------------------------------------------------ SpecSearch: search over a stored corpus

\* the records the corpus is built from: embeddings at 0, 0.1, 0.5 and 0.6
SearchInputs ==
    {ItemDoc(id, [path |-> PathA, type |-> "text", embedding |-> Vec(k), dateAdded |-> 0]) :
        id \in StoreIds, k \in {0, 6, 30, 36}}

Queries == {Vec(0), Vec(6), Vec(36)}
Limits == {1, 2, DefaultLimit}
Thresholds == {6, DefaultThreshold}

NextSearch ==
    \/ \E outcome \in InitOutcomes : initializeDatabase(outcome)
    \/ \E data \in SearchInputs : storeEmbedding(data)
    \/ \E q \in Queries, limit \in Limits, threshold \in Thresholds, exposes \in BOOLEAN :
          searchByVector(q, limit, threshold, exposes)

SpecSearch == Init /\ [][NextSearch]_vars

\* ------------------------------------------------------------------ processFolderFiles

\* ProcessResult: {file, success} or {file, error}
ProcessResult(file, err) == [file |-> file, success |-> (err = ErrNone), error |-> err]

\* a loop that lets the error of an item end the batch
processFolderFilesStepStopsOnError(b, file, err) ==
    [b EXCEPT !.results = Append(@, ProcessResult(file, err)),
              !.attempts = Append(@, [file |-> file, err |-> err]),
              !.processedCount = @ + 1,
              !.progress = IF b.hasCallback
                           THEN Append(@, <<b.processedCount + 1, Len(b.files)>>)
                           ELSE @,
              !.pc = IF b.processedCount + 1 = Len(b.files) \/ err # ErrNone
                     THEN "done" ELSE "running"]

\* a loop that reports progress for the items that succeeded only
processFolderFilesStepProgressOnSuccess(b, file, err) ==
    [b EXCEPT !.results = Append(@, ProcessResult(file, err)),
              !.attempts = Append(@, [file |-> file, err |-> err]),
              !.processedCount = @ + 1,
              !.progress = IF b.hasCallback /\ err = ErrNone
                           THEN Append(@, <<b.processedCount + 1, Len(b.files)>>)
                           ELSE @,
              !.pc = IF b.processedCount + 1 = Len(b.files) THEN "done" ELSE "running"]

\* one iteration of the loop of processFolderFiles: processFile(file) finished
\* with err (ErrNone: it returned true); the function returns after the last one
processFolderFilesStep(b, file, err) ==
    [b EXCEPT !.results = Append(@, ProcessResult(file, err)),
              !.attempts = Append(@, [file |-> file, err |-> err]),
              !.processedCount = @ + 1,
              !.progress = IF b.hasCallback
                           THEN Append(@, <<b.processedCount + 1, Len(b.files)>>)
                           ELSE @,
              !.pc = IF b.processedCount + 1 = Len(b.files) THEN "done" ELSE "running"]

\* processFolderFiles(files, progressCallback) is called
processFolderFilesStart(files, hasCallback) ==
    /\ batch.pc = "idle"
    /\ batch' = [NoBatch EXCEPT !.pc = IF files = <<>> THEN "done" ELSE "running",
                                !.files = files,
                                !.hasCallback = hasCallback]
    /\ UNCHANGED <<database, itemsCollection, docs, last, textSession, visionSession,
                   now, lastIndex, calls, scan, util>>

\* the next file of the running batch is processed
processFolderFilesItem(readable) ==
    /\ batch.pc = "running"
    /\ LET file == batch.files[batch.processedCount + 1]
           r == processFileResult(database, itemsCollection, docs, textSession,
                                  visionSession, file, readable, now)
       IN /\ docs' = r.docs
          /\ lastIndex' = Indexed(file, r.fileType, r.embedFailed, r.stored, r.err)
          /\ last' = Call("processFile", r.stored, NoQuery, r.existing, r.ret, <<>>, r.err)
          /\ batch' = processFolderFilesStep(batch, file, r.err)
    /\ UNCHANGED <<database, itemsCollection, textSession, visionSession, now, calls, scan, util>>

\* ------------------------------------------------------------------ SpecFile: single processFile calls

NextFile ==
    \/ \E outcome \in InitOutcomes : initializeDatabase(outcome)
    \/ cleanupDatabase
    \/ \E ok \in BOOLEAN : initializeModels(ok)
    \/ \E file \in Files, readable \in BOOLEAN : processFile(file, readable)

SpecFile == Init /\ [][NextFile]_vars

\* ------------------------------------------------------------------ SpecBatch: one processFolderFiles call

BatchFiles == {TextFile, ImageFile, BinFile}

\* the lists of at most MaxBatch files
BatchInputs == UNION {[1..n -> BatchFiles] : n \in 0..MaxBatch}

NextBatch ==
    \/ \E outcome \in InitOutcomes : initializeDatabase(outcome)
    \/ cleanupDatabase
    \/ \E ok \in BOOLEAN : initializeModels(ok)
    \/ Tick
    \/ \E files \in BatchInputs, hasCallback \in BOOLEAN :
          processFolderFilesStart(files, hasCallback)
    \/ \E readable \in BOOLEAN : processFolderFilesItem(readable)

SpecBatch == Init /\ [][NextBatch]_vars

\* ------------------------------------------------------------------ SpecConc: concurrent storeEmbedding calls

\* storeEmbedding(data) is called: the guard, then findOne is awaited
storeEmbeddingBegin(c, data) ==
    /\ calls[c].pc \in {"idle", "done", "failed"}
    /\ calls' = [calls EXCEPT ![c] =
                    IF NotInitialized(database, itemsCollection)
                    THEN StoreCall("failed", data, NoDoc, NoDoc, ErrNotInitialized)
                    ELSE StoreCall("lookup", data, NoDoc, NoDoc, ErrNone)]
    /\ UNCHANGED <<database, itemsCollection, docs, last, textSession, visionSession,
                   now, lastIndex, batch, scan, util>>

\* findOne resolves: update or insert is awaited
storeEmbeddingLookup(c) ==
    /\ calls[c].pc = "lookup"
    /\ calls' = [calls EXCEPT ![c].pc = "write",
                              ![c].existing = lookupStep(docs, calls[c].data)]
    /\ UNCHANGED <<database, itemsCollection, docs, last, textSession, visionSession,
                   now, lastIndex, batch, scan, util>>

\* the write resolves or rejects: the call returns or throws
storeEmbeddingWrite(c, rejectsStale) ==
    /\ calls[c].pc = "write"
    /\ LET w == writeStep(docs, calls[c].existing, calls[c].data, rejectsStale) IN
       /\ docs' = w.docs
       /\ calls' = [calls EXCEPT ![c].pc = IF w.err = ErrNone THEN "done" ELSE "failed",
                                 ![c].ret = w.ret,
                                 ![c].err = w.err]
    /\ UNCHANGED <<database, itemsCollection, last, textSession, visionSession,
                   now, lastIndex, batch, scan, util>>

\* what the concurrent callers pass, all under one id: every embedding and every
\* dateAdded belongs to one payload only
ConcInputs ==
    {ItemDoc(IdOf(1), p) :
        p \in {[path |-> PathA, type |-> "text",  embedding |-> Vec(0),  dateAdded |-> 0],
               [path |-> PathA, type |-> "text",  embedding |-> Vec(30), dateAdded |-> 1],
               [path |-> PathB, type |-> "image", embedding |-> Vec(6),  dateAdded |-> 2]}}

NextConc ==
    \/ \E outcome \in InitOutcomes : initializeDatabase(outcome)
    \/ \E c \in CallIds, data \in ConcInputs : storeEmbeddingBegin(c, data)
    \/ \E c \in CallIds : storeEmbeddingLookup(c)
    \/ \E c \in CallIds, rejectsStale \in BOOLEAN : storeEmbeddingWrite(c, rejectsStale)

SpecConc == Init /\ [][NextConc]_vars

\* ------------------------------------------------------------------ SpecChunk: splitTextIntoChunks over all short texts

\* the calls of splitTextIntoChunks, one per text and maxChunkLength
ChunkCalls ==
    {Util("splitTextIntoChunks", "called",
          [text |-> text, maxChunkLength |-> maxChunkLength], <<>>, ErrNone) :
        text \in Texts, maxChunkLength \in ChunkLengths}

NextChunk == splitTextIntoChunksCall

SpecChunk == InitHelper(ChunkCalls) /\ [][NextChunk]_vars

\* ------------------------------------------------------------------ SpecScan: one scanFolderForFiles call

NextScan ==
    \/ \E root \in Trees, failing \in FailingSets, statFailing \in StatFailingSets,
          hasCallback \in BOOLEAN :
          scanFolderForFilesStart(root, failing, statFailing, hasCallback)
    \/ processFolderList
    \/ processFolderItem
    \/ processFolderReturn

SpecScan == Init /\ [][NextScan]_vars

\* ------------------------------------------------------------------ SpecEmbed: calls of the embedding helpers

EmbedCalls ==
    {Util("averageEmbeddings", "called", embeddings, <<>>, ErrNone) :
        embeddings \in VectorLists}
    \cup {Util("processTextFile", "called", [content |-> c, readable |-> r], <<>>, ErrNone) :
            c \in TextContents, r \in BOOLEAN}
    \cup {Util("processVideoFile", "called", [content |-> c, readable |-> r], <<>>, ErrNone) :
            c \in VideoContents, r \in BOOLEAN}

NextEmbed ==
    \/ \E ok \in BOOLEAN : initializeModels(ok)
    \/ averageEmbeddingsCall
    \/ processTextFileCall
    \/ processVideoFileCall

SpecEmbed == InitHelper(EmbedCalls) /\ [][NextEmbed]_vars

\* ------------------------------------------------------------------ SpecClassify: calls of determineFileType

ClassifyCalls ==
    {Util("determineFileType", "called", file, <<>>, ErrNone) : file \in Descriptors}

SpecClassify == InitHelper(ClassifyCalls) /\ [][determineFileTypeCall]_vars

\* ------------------------------------------------------------------ SpecQuery: searchFiles over a stored corpus

QueryTexts == {"cat", "dog", ""}

\* the argument lists of searchFiles: with and without a limit
SearchArgs == {<<query>> : query \in QueryTexts} \cup (QueryTexts \X {1})

\* the corpus is built from records with embeddings at 0, 0.5 and 0.6
NextQuery ==
    \/ \E outcome \in InitOutcomes : initializeDatabase(outcome)
    \/ \E ok \in BOOLEAN : initializeModels(ok)
    \/ \E id \in StoreIds, k \in {0, 30, 36} :
          storeEmbedding(ItemDoc(id, [path |-> PathA, type |-> "text",
                                      embedding |-> Vec(k), dateAdded |-> 0]))
    \/ \E query \in QueryTexts, limit \in {1, DefaultLimit}, exposes \in BOOLEAN :
          searchByVector(generateDeterministicEmbedding(query), limit, DefaultThreshold,
                         exposes)
    \/ \E args \in SearchArgs, exposes \in BOOLEAN : searchFiles(args, exposes)

SpecQuery == Init /\ [][NextQuery]_vars

\* ------------------------------------------------------------------ claims on the store

StoreOps == {"storeEmbedding", "searchByVector", "getAllItems"}

DocsWithId(ds, id) == {i \in 1..Len(ds) : ds[i].id = id}

C9_NotInitialized ==
    [][ ( /\ ~database \/ ~itemsCollection
          /\ last'.op \in StoreOps )
        => ( /\ last'.err = ErrNotInitialized
             /\ last'.ret = NoDoc
             /\ last'.list = <<>>
             /\ docs' = docs ) ]_vars

\* a store call was rejected after cleanupDatabase closed a store that holds records
C9_Witness ==
    /\ last.op \in StoreOps
    /\ last.err = ErrNotInitialized
    /\ ~database
    /\ Len(docs) > 0

\* C10: a storeEmbedding call on an initialized store whose embedding does not
\* have EMBEDDING_DIM components (a missing embedding included) fails, and no
\* record under its id carries that embedding.
C10_DimensionMismatch ==
    ( /\ last.op = "storeEmbedding"
      /\ last.err # ErrNotInitialized
      /\ Len(last.data.embedding) # EMBEDDING_DIM )
    => ( /\ last.err # ErrNone
         /\ \A i \in DocsWithId(docs, last.data.id) :
                docs[i].embedding # last.data.embedding )

\* ------------------------------------------------------------------ claims on search

\* the last call was a search on an initialized store (a search changes nothing,
\* so docs is the corpus it ran on)
Searched == last.op = "searchByVector" /\ database /\ itemsCollection

DistanceToQuery(doc) == EuclideanDistance(doc.embedding, last.query.queryEmbedding)

\* the positions in docs of the records within the threshold of the last query
InThreshold ==
    {j \in 1..Len(docs) :
        /\ HasDistance(docs[j].embedding, last.query.queryEmbedding)
        /\ DistanceToQuery(docs[j]) <= last.query.threshold}

\* the position in docs of a returned record
PositionOf(result) == CHOOSE j \in 1..Len(docs) : docs[j].id = result.id

\* C6: a search on an initialized store does not fail, every record it returns
\* is a stored record whose Euclidean distance to the query is at most the
\* threshold, and it returns the empty sequence when no stored record is
\* within the threshold.
C6_WithinThreshold ==
    Searched =>
        /\ last.err = ErrNone
        /\ \A i \in 1..Len(last.list) :
              \E j \in InThreshold :
                 /\ docs[j].id = last.list[i].id
                 /\ docs[j].embedding = last.list[i].embedding
        /\ (InThreshold = {} => last.list = <<>>)

\* a search returned a record and left out a stored record beyond the threshold
C6_Witness ==
    /\ Searched
    /\ Len(last.list) > 0
    /\ \E j \in 1..Len(docs) : j \notin InThreshold

Min(a, b) == IF a < b THEN a ELSE b

\* C7: the result of a search holds the min(limit, number of records within the
\* threshold) closest records, in ascending order of distance, records at equal
\* distance in insertion order.
C7_ClosestFirst ==
    Searched =>
        /\ Len(last.list) = Min(last.query.limit, Cardinality(InThreshold))
        /\ \A i, k \in 1..Len(last.list) :
              i < k =>
                 \/ DistanceToQuery(last.list[i]) < DistanceToQuery(last.list[k])
                 \/ /\ DistanceToQuery(last.list[i]) = DistanceToQuery(last.list[k])
                    /\ PositionOf(last.list[i]) < PositionOf(last.list[k])
        /\ \A i \in 1..Len(last.list) :
              \A j \in InThreshold :
                 (\A k \in 1..Len(last.list) : last.list[k].id # docs[j].id)
                    => DistanceToQuery(docs[j]) >= DistanceToQuery(last.list[i])

\* C8: every record a search returns carries the score max(0, 1 - d/threshold),
\* d its distance to the query: the score lies in [0,1], is 1 at distance 0 and
\* below 1 at a positive distance.
C8_Score ==
    Searched =>
        \A i \in 1..Len(last.list) :
           LET score == last.list[i].score
               d == DistanceToQuery(last.list[i])
               t == last.query.threshold
           IN /\ score.den > 0
              /\ score.num * t = (IF t - d > 0 THEN t - d ELSE 0) * score.den
              /\ 0 <= score.num /\ score.num <= score.den
              /\ (d = 0 => score.num = score.den)
              /\ (d > 0 => score.num < score.den)

\* ------------------------------------------------------------------ claims on indexing

\* C1: processFolderFiles passes the files to processFile one by one in input
\* order, records one outcome per file in that order, success exactly when
\* processFile returned and otherwise the message of the error it threw, and
\* returns only when every file has its outcome.
C1_BatchOutcomes ==
    batch.pc # "idle" =>
        /\ batch.processedCount <= Len(batch.files)
        /\ Len(batch.attempts) = batch.processedCount
        /\ Len(batch.results) = batch.processedCount
        /\ \A i \in 1..batch.processedCount :
              /\ batch.attempts[i].file = batch.files[i]
              /\ batch.results[i].file = batch.files[i]
              /\ batch.results[i].success = (batch.attempts[i].err = ErrNone)
              /\ batch.results[i].error = batch.attempts[i].err
        /\ (batch.pc = "done" => batch.processedCount = Len(batch.files))

\* a batch of three files returned (success, failure, success)
C1_Witness ==
    /\ batch.pc = "done"
    /\ Len(batch.files) = 3
    /\ Len(batch.results) = 3
    /\ batch.results[1].success
    /\ ~batch.results[2].success
    /\ batch.results[2].error # ErrNone
    /\ batch.results[3].success

\* C2: with a progress callback, the calls made so far are (1,n), (2,n), ...,
\* one per processed file, n the number of files; when the batch has returned
\* there are n of them and the last is (n,n).
C2_Progress ==
    (batch.pc # "idle" /\ batch.hasCallback) =>
        /\ batch.progress = [i \in 1..batch.processedCount |-> <<i, Len(batch.files)>>]
        /\ (batch.pc = "done" => Len(batch.progress) = Len(batch.files))
        /\ (batch.pc = "done" /\ Len(batch.files) > 0 =>
               batch.progress[Len(batch.progress)] = <<Len(batch.files), Len(batch.files)>>)

\* a batch with a failed and a succeeded file returned after reporting every file
C2_Witness ==
    /\ batch.pc = "done"
    /\ batch.hasCallback
    /\ Len(batch.progress) = Len(batch.files)
    /\ \E i \in 1..Len(batch.results) : batch.results[i].success
    /\ \E i \in 1..Len(batch.results) : ~batch.results[i].success

\* C3: a processFile call whose file is classified as unsupported or whose
\* embedding step throws fails with an error, does not call storeEmbedding and
\* leaves the stored records as they were.
C3_NoPartialRecord ==
    [][ ( /\ last'.op = "processFile"
          /\ lastIndex'.fileType = "null" \/ lastIndex'.embedFailed )
        => ( /\ last'.err # ErrNone
             /\ lastIndex'.err = last'.err
             /\ lastIndex'.stored = NoDoc
             /\ docs' = docs ) ]_vars

\* the embedding step of a supported file failed on an initialized store that holds records
C3_Witness ==
    /\ last.op = "processFile"
    /\ lastIndex.fileType # "null"
    /\ lastIndex.embedFailed
    /\ database /\ itemsCollection
    /\ Len(docs) > 0

\* ------------------------------------------------------------------ claims on concurrent calls

\* C5: under every interleaving of the lookups and writes of storeEmbedding
\* calls with the same id, the store holds at most one record under that id,
\* exactly one once a call has returned, and the embedding and the dateAdded of
\* that record are those of one call.
C5_NoTornWrite ==
    /\ Cardinality(DocsWithId(docs, IdOf(1))) <= 1
    /\ ((\E c \in CallIds : calls[c].pc = "done")
           => Cardinality(DocsWithId(docs, IdOf(1))) = 1)
    /\ \A i \in DocsWithId(docs, IdOf(1)) :
          \E d \in ConcInputs :
             /\ docs[i].embedding = d.embedding
             /\ docs[i].dateAdded = d.dateAdded

\* two overlapping calls with different data ended, one of them rejected by the
\* write of the other
C5_Witness ==
    /\ calls[1].pc = "done"
    /\ calls[2].pc = "failed"
    /\ calls[2].err = ErrStore
    /\ calls[1].data.embedding # calls[2].data.embedding
    /\ Cardinality(DocsWithId(docs, IdOf(1))) = 1

\* ------------------------------------------------------------------ claims on the stored embeddings

\* C11: after any sequence of processFile calls over text, image and video
\* files (text files with no text included), every stored record has an
\* embedding of exactly EMBEDDING_DIM components.
C11_AllRecordsDimD ==
    \A i \in 1..Len(docs) : Len(docs[i].embedding) = EMBEDDING_DIM

\* ------------------------------------------------------------------ claims on splitTextIntoChunks

\* the last call was a call of splitTextIntoChunks
Split == util.op = "splitTextIntoChunks" /\ util.pc = "returned"

\* the concatenation of the chunks, in order
RECURSIVE Concat(_)
Concat(chunks) ==
    IF chunks = <<>> THEN <<>> ELSE Head(chunks) \o Concat(Tail(chunks))

\* C12: for every text and every maxChunkLength >= 1, the chunks
\* splitTextIntoChunks returns, concatenated in order, are the text: no
\* character is dropped, duplicated or moved.
C12_Lossless ==
    Split => Concat(util.output) = util.input.text

\* a text was cut into two chunks or more, one of them at a break
C12_Witness ==
    /\ Split
    /\ Len(util.output) >= 2
    /\ \E i \in 1..(Len(util.output) - 1) :
          /\ Len(util.output[i]) # util.input.maxChunkLength
          /\ util.output[i][Len(util.output[i])] \in {" ", "\n"}
    /\ Concat(util.output) = util.input.text

\* C13 (as claimed): for every text of length at most maxChunkLength,
\* splitTextIntoChunks returns exactly one chunk, the text.
C13_SingleChunk ==
    (Split /\ Len(util.input.text) <= util.input.maxChunkLength)
        => util.output = <<util.input.text>>

\* C13 (amended): for every non-empty text of length at most maxChunkLength,
\* splitTextIntoChunks returns exactly one chunk, the text; for the empty text
\* it returns no chunk.
C13_SingleChunkIfNotEmpty ==
    (Split /\ Len(util.input.text) <= util.input.maxChunkLength)
        => util.output = IF Len(util.input.text) = 0 THEN <<>> ELSE <<util.input.text>>

\* a text of exactly maxChunkLength characters, breaks among them, came back as one chunk
C13_Witness ==
    /\ Split
    /\ Len(util.input.text) = util.input.maxChunkLength
    /\ util.input.maxChunkLength >= 3
    /\ util.input.text[2] = " "
    /\ util.output = <<util.input.text>>

\* C14: every chunk splitTextIntoChunks returns has at most maxChunkLength
\* characters, for every text and every maxChunkLength >= 1, also when a
\* paragraph break, line break, sentence end or space starts at startIndex +
\* maxChunkLength.
C14_ChunkLength ==
    Split => \A i \in 1..Len(util.output) :
                Len(util.output[i]) <= util.input.maxChunkLength

\* ------------------------------------------------------------------ claims on scanFolderForFiles

\* the paths of the files of the tree under node, depth first, in listing order
RECURSIVE FilesUnder(_, _)
FilesUnder(node, path) ==
    IF node.kind = "file" THEN <<path>>
    ELSE IF node.kind = "dir"
         THEN Concat([i \in 1..Len(node.items) |->
                         FilesUnder(node.items[i], Append(path, node.items[i].name))])
    ELSE <<>>

\* the classifier accepts the file at path
Accepted(path) ==
    determineFileType([uri |-> path, type |-> getMimeType(path[Len(path)]),
                       name |-> path[Len(path)]]) # "null"

\* the file at path lies under a directory whose listing fails
UnderFailing(path, failing) ==
    \E k \in 1..(Len(path) - 1) : SubSeq(path, 1, k) \in failing

\* the uris of the files returned
ReturnedUris == [i \in 1..Len(scan.supportedFiles) |-> scan.supportedFiles[i].uri]

\* C15: whatever directories fail to list, scanFolderForFiles raises no error
\* and always has a next step until it returns, and when it has returned, every
\* supported file that is not under a failing directory is in the list it returned.
C15_FailingSubtreeSkipped ==
    /\ scan.pc # "failed"
    /\ (scan.pc = "running" => scan.stack # <<>>)
    /\ (scan.pc = "done" /\ scan.statFailing = {}) =>
          \A k \in 1..Len(FilesUnder(scan.root, RootPath)) :
             LET path == FilesUnder(scan.root, RootPath)[k] IN
             (Accepted(path) /\ ~UnderFailing(path, scan.failing))
                => \E i \in 1..Len(ReturnedUris) : ReturnedUris[i] = path

\* a scan returned files listed before and after a subdirectory that failed to
\* list and has supported files under it
C15_Witness ==
    /\ scan.pc = "done"
    /\ scan.statFailing = {}
    /\ scan.failing = {D1Path}
    /\ \E k \in 1..Len(FilesUnder(scan.root, RootPath)) :
          LET path == FilesUnder(scan.root, RootPath)[k] IN
          Accepted(path) /\ UnderFailing(path, scan.failing)
    /\ \E i, j \in 1..Len(ReturnedUris) :
          /\ i < j
          /\ ReturnedUris[i] = Append(RootPath, Name("a", ".TXT"))
          /\ ReturnedUris[j] = Append(RootPath, Numbered("f", 1, ".txt"))

\* C16: when every listing and every getInfoAsync succeeds, scanFolderForFiles
\* returns the files under the root that the classifier accepts, each once, in
\* depth-first listing order, and nothing else (the empty list when there is none).
C16_AllSupportedFiles ==
    (scan.pc = "done" /\ scan.failing = {} /\ scan.statFailing = {}) =>
        /\ ReturnedUris = SelectSeq(FilesUnder(scan.root, RootPath), Accepted)
        /\ \A i \in 1..Len(scan.supportedFiles) :
              /\ scan.supportedFiles[i].name
                    = scan.supportedFiles[i].uri[Len(scan.supportedFiles[i].uri)]
              /\ determineFileType(scan.supportedFiles[i]) # "null"

\* a scan without failures returned a file two directories down before a file
\* of the root, and left out the unsupported file
C16_Witness ==
    /\ scan.pc = "done"
    /\ scan.failing = {}
    /\ scan.statFailing = {}
    /\ \E i, j \in 1..Len(ReturnedUris) :
          /\ i < j
          /\ ReturnedUris[i] = Append(D2Path, Name("v", ".mkv"))
          /\ ReturnedUris[j] = Append(RootPath, Numbered("f", 1, ".txt"))
    /\ \A i \in 1..Len(ReturnedUris) : ReturnedUris[i] # Append(D1Path, Name("x", ".bin"))

\* C17: with a progress callback, the counts reported while the scan runs are
\* 10, 20, ... up to the number of files found so far; the scan then reports
\* the total once more (0 when nothing was found), so the reports never
\* decrease and the last one is the length of the returned list.
C17_ScanProgress ==
    scan.hasCallback =>
        LET tens == [i \in 1..(scan.fileCount \div 10) |-> 10 * i] IN
        /\ scan.fileCount = Len(scan.supportedFiles)
        /\ (scan.pc = "running" => scan.progress = tens)
        /\ (scan.pc = "done" =>
               /\ scan.progress = Append(tens, Len(scan.supportedFiles))
               /\ \A i \in 1..(Len(scan.progress) - 1) :
                     scan.progress[i] <= scan.progress[i + 1])

\* a scan that found 20 files reported 10, 20 and 20
C17_Witness ==
    /\ scan.pc = "done"
    /\ scan.hasCallback
    /\ scan.progress = <<10, 20, 20>>
    /\ Len(scan.supportedFiles) = 20

\* ------------------------------------------------------------------ claims on the embedding helpers

\* the last call of a helper was a call of op, and it has returned or thrown
Returned(op) == util.op = op /\ util.pc = "returned"

\* the sum of the k-th components of the vectors vs[1], ..., vs[n]
RECURSIVE ComponentSum(_, _, _)
ComponentSum(vs, n, k) ==
    IF n = 0 THEN 0 ELSE ComponentSum(vs, n - 1, k) + vs[n][k]

\* mean is the element-wise arithmetic mean of the non-empty list vs
IsMean(mean, vs) ==
    /\ Len(mean) = Len(vs[1])
    /\ \A k \in 1..Len(mean) : mean[k] * Len(vs) = ComponentSum(vs, Len(vs), k)

\* the embeddings of the chunks of a text that are not blank after trim
Surviving(content) ==
    LET chunks == SelectSeq(content.chunks, LAMBDA c : ~c.blank) IN
    [i \in 1..Len(chunks) |-> chunks[i].embedding]

\* C18: processTextFile on a readable file with no chunk that is non-empty
\* after trim fails and returns no embedding; with the text model ready, one
\* surviving chunk gives that chunk's embedding and more than one give the
\* element-wise mean of their embeddings.
C18_TextEmbedding ==
    (Returned("processTextFile") /\ util.input.readable) =>
        LET embeddings == Surviving(util.input.content) IN
        /\ Len(embeddings) = 0 =>
              /\ ~util.output.ok
              /\ util.err # ErrNone
              /\ util.output.embedding = Undefined
        /\ (Len(embeddings) = 1 /\ util.output.session) =>
              /\ util.output.ok
              /\ util.output.embedding = embeddings[1]
        /\ (Len(embeddings) > 1 /\ util.output.session) =>
              /\ util.output.ok
              /\ IsMean(util.output.embedding, embeddings)

\* C19: processVideoFile attempts frameCount frames, at floor(durationMs /
\* frameCount * i) ms for i = 0 .. frameCount - 1, whichever of them fail; it
\* fails exactly when every attempt failed, and otherwise returns the
\* element-wise mean of the embeddings of the frames that succeeded.
C19_VideoFrames ==
    Returned("processVideoFile") =>
        LET attempts == util.output.attempts
            succeeded == {i \in 1..frameCount :
                             /\ util.input.readable
                             /\ util.output.session
                             /\ util.input.content.frames[i]}
            embeddings == [i \in 1..Cardinality(succeeded) |-> VisionEmbedding]
        IN /\ Len(attempts) = 10
           /\ \A i \in 1..Len(attempts) : attempts[i].time = 1000 * (i - 1)
           /\ \A i \in 1..Len(attempts) : attempts[i].ok = (i \in succeeded)
           /\ util.output.ok = (succeeded # {})
           /\ (util.err # ErrNone) = (succeeded = {})
           /\ util.output.ok => IsMean(util.output.embedding, embeddings)

\* a video of which the first frame and two more failed gave an embedding
C19_Witness ==
    /\ Returned("processVideoFile")
    /\ util.output.ok
    /\ ~util.output.attempts[1].ok
    /\ Cardinality({i \in 1..frameCount : util.output.attempts[i].ok}) = 7
    /\ Len(util.output.embedding) = EMBEDDING_DIM

\* C20: averageEmbeddings of a non-empty list of vectors of one length returns
\* their element-wise arithmetic mean, so [v] gives v and [v, v] gives v; for
\* the empty list it throws "No embeddings to average" and returns no vector.
C20_Average ==
    Returned("averageEmbeddings") =>
        IF util.input = <<>>
        THEN util.err = ErrNoEmbeddings /\ util.output = Undefined
        ELSE /\ util.err = ErrNone
             /\ IsMean(util.output, util.input)
             /\ ((\A i \in 1..Len(util.input) : util.input[i] = util.input[1])
                    => util.output = util.input[1])

\* three different vectors gave a mean that is none of them
C20_Witness ==
    /\ Returned("averageEmbeddings")
    /\ Len(util.input) = 3
    /\ \A i, j \in 1..3 : i # j => util.input[i] # util.input[j]
    /\ \A i \in 1..3 : util.output # util.input[i]
    /\ util.output[EMBEDDING_DIM] # 0
    /\ IsMean(util.output, util.input)

\* ------------------------------------------------------------------ claims on the effect of storeEmbedding and on initialization

\* C25: a successful storeEmbedding on an id the store holds changes only the
\* embedding and the dateAdded of that record (its id, path and type stay those
\* of the first insert, also when the new data carries another path or type),
\* leaves every other record and the number of records as they were; on an id
\* the store does not hold it appends one record equal to the input and
\* changes no other record.
C25_StoreFrame ==
    [][ ( /\ last'.op = "storeEmbedding"
          /\ last'.err = ErrNone )
        => LET data == last'.data IN
           IF DocsWithId(docs, data.id) # {}
           THEN /\ Len(docs') = Len(docs)
                /\ \A i \in 1..Len(docs) :
                      IF docs[i].id = data.id
                      THEN /\ docs'[i].id = docs[i].id
                           /\ docs'[i].path = docs[i].path
                           /\ docs'[i].type = docs[i].type
                           /\ docs'[i].embedding = data.embedding
                           /\ docs'[i].dateAdded = data.dateAdded
                      ELSE docs'[i] = docs[i]
           ELSE /\ Len(docs') = Len(docs) + 1
                /\ docs'[Len(docs')] = data
                /\ \A i \in 1..Len(docs) : docs'[i] = docs[i] ]_vars

\* a record was updated by a call that carried another path and type, next to
\* a record with another id
C25_Witness ==
    /\ last.op = "storeEmbedding"
    /\ last.err = ErrNone
    /\ last.existing # NoDoc
    /\ last.existing.path # last.data.path
    /\ last.existing.type # last.data.type
    /\ last.existing.embedding # last.data.embedding
    /\ Len(docs) = 2
    /\ \E i \in 1..Len(docs) :
          /\ docs[i].id = last.data.id
          /\ docs[i].path = last.existing.path
          /\ docs[i].embedding = last.data.embedding

\* C28: in every reachable state the database handle is set exactly when the
\* items collection is set, whatever initializeDatabase calls succeeded or
\* failed and whatever cleanupDatabase calls were made.
C28_BothOrNeither ==
    database = itemsCollection

\* C29: when two storeEmbedding calls for one id overlap on an initialized
\* store, both return under every interleaving: neither is rejected with a
\* storage error because of the write of the other.
C29_BothSucceed ==
    \A c \in CallIds : calls[c].err # ErrStore

\* C30: when getInfoAsync fails for an item of a directory and every listing
\* succeeds, only that item is lost: every other supported file of the tree,
\* the later items of the same directory and the files under its later
\* subdirectories included, is in the list scanFolderForFiles returns.
C30_StatFailureLosesOneEntry ==
    (scan.pc = "done" /\ scan.failing = {}) =>
        \A k \in 1..Len(FilesUnder(scan.root, RootPath)) :
           LET path == FilesUnder(scan.root, RootPath)[k] IN
           (Accepted(path) /\ ~UnderFailing(path, scan.statFailing)
                           /\ path \notin scan.statFailing)
              => \E i \in 1..Len(ReturnedUris) : ReturnedUris[i] = path

\* ------------------------------------------------------------------ claims on re-indexing

\* the positions in ds of the records with the path p
DocsWithPath(ds, p) == {i \in 1..Len(ds) : ds[i].path = p}

\* C26: a successful processFile of a path that was indexed before, at clock
\* values other than the present one, inserts a new record: the number of
\* records with that path grows by one.
C26_ReindexAddsRecord ==
    [][ ( /\ last'.op = "processFile"
          /\ last'.err = ErrNone
          /\ DocsWithPath(docs, last'.data.path) # {}
          /\ \A i \in DocsWithPath(docs, last'.data.path) : docs[i].dateAdded # now )
        => Cardinality(DocsWithPath(docs', last'.data.path))
              = Cardinality(DocsWithPath(docs, last'.data.path)) + 1 ]_vars

\* C27: after a successful processFile of a file with path p the store holds
\* a record with path p and the embedding computed from the content at p;
\* also for paths that differ in non-alphanumeric characters only and are
\* indexed within one millisecond.
C27_RecordForPath ==
    (last.op = "processFile" /\ last.err = ErrNone) =>
        \E i \in 1..Len(docs) :
           /\ docs[i].path = last.data.path
           /\ docs[i].embedding = last.data.embedding

\* ------------------------------------------------------------------ claims on the cuts of splitTextIntoChunks

\* the index at which the i-th chunk starts, and the one at which it ends
RECURSIVE StartOf(_, _)
StartOf(chunks, i) ==
    IF i = 1 THEN 0 ELSE StartOf(chunks, i - 1) + Len(chunks[i - 1])

CutOf(chunks, i) == StartOf(chunks, i) + Len(chunks[i])

\* the boundary kinds in priority order: the separators of each kind
BoundaryKinds ==
    << {<<"\n", "\n">>}, {<<"\n">>}, {<<".", " ">>, <<"!", " ">>, <<"?", " ">>}, {<<" ">>} >>

\* the length of the separators of a kind
SeparatorLen(kind) == Len(CHOOSE sep \in BoundaryKinds[kind] : TRUE)

\* the indices beyond start + L/2 and not beyond start + L at which a
\* separator of the kind occurs in the text
Occurrences(text, kind, start, L) ==
    {b \in 0..(Len(text) - 1) :
        /\ 2 * b > 2 * start + L
        /\ b <= start + L
        /\ \E sep \in BoundaryKinds[kind] :
              /\ b + Len(sep) <= Len(text)
              /\ SubSeq(text, b + 1, b + Len(sep)) = sep}

Last(indices) == CHOOSE b \in indices : \A c \in indices : c <= b

\* the kinds that have an occurrence in that range
Qualifying(text, start, L) ==
    {kind \in 1..Len(BoundaryKinds) : Occurrences(text, kind, start, L) # {}}

\* the cut the rule asks for: after the last occurrence of the first kind that
\* qualifies, at start + L when none does
RuleCut(text, start, L) ==
    IF Qualifying(text, start, L) = {} THEN start + L
    ELSE LET kind == CHOOSE k \in Qualifying(text, start, L) :
                        \A j \in Qualifying(text, start, L) : k <= j
         IN Last(Occurrences(text, kind, start, L)) + SeparatorLen(kind)

\* C23: in a text longer than maxChunkLength, every chunk that does not reach
\* the end of the text from its start within maxChunkLength characters is cut
\* after the last occurrence, in the range beyond start + L/2 and not beyond
\* start + L, of the first boundary kind (paragraph break, line break,
\* sentence end and space, space) that occurs there, and at start + L when no
\* kind occurs there.
C23_CutSelection ==
    (Split /\ Len(util.input.text) > util.input.maxChunkLength) =>
        \A i \in 1..Len(util.output) :
           StartOf(util.output, i) + util.input.maxChunkLength < Len(util.input.text)
              => CutOf(util.output, i)
                    = RuleCut(util.input.text, StartOf(util.output, i),
                              util.input.maxChunkLength)

\* a chunk was cut after a line break although a space lies further right in the range
C23_Witness ==
    /\ Split
    /\ \E i \in 1..Len(util.output) :
          LET start == StartOf(util.output, i)
              L == util.input.maxChunkLength
              text == util.input.text
          IN /\ start + L < Len(text)
             /\ Occurrences(text, 1, start, L) = {}
             /\ Occurrences(text, 2, start, L) # {}
             /\ Occurrences(text, 4, start, L) # {}
             /\ Last(Occurrences(text, 4, start, L)) > Last(Occurrences(text, 2, start, L))
             /\ CutOf(util.output, i) = Last(Occurrences(text, 2, start, L)) + 1

\* C24: for every text and every maxChunkLength >= 1 the loop of
\* splitTextIntoChunks moves startIndex forward at every iteration, so the
\* output is finite (at most one chunk per character) and holds no empty
\* chunk; the empty text gives the empty sequence.
C24_Terminates ==
    Split =>
        /\ \A start \in 0..(Len(util.input.text) - 1) :
              chunkEnd(util.input.text, start, util.input.maxChunkLength) > start
        /\ Len(util.output) <= Len(util.input.text)
        /\ \A i \in 1..Len(util.output) : Len(util.output[i]) > 0
        /\ (util.input.text = <<>> => util.output = <<>>)

\* a text of separators only was cut into three chunks or more
C24_Witness ==
    /\ Split
    /\ Len(util.output) >= 3
    /\ \A k \in 1..Len(util.input.text) : util.input.text[k] \in {" ", "\n"}
    /\ \A i \in 1..Len(util.output) : Len(util.output[i]) > 0

\* ------------------------------------------------------------------ claims on determineFileType

Classified == util.op = "determineFileType" /\ util.pc = "returned"

\* the modality a declared type stands for by its prefix, "null" when it is
\* absent or starts with none of text/, image/, video/
DeclaredModality(type) ==
    CASE type \in {"text/plain", "text/html"} -> "text"
      [] type \in {"image/png", "image/heic"} -> "image"
      [] type \in {"video/mp4", "video/webm"} -> "video"
      [] OTHER -> "null"

\* the modality the table gives for the lower-cased extension of a written name
TextNames ==
    {<<"r", "e", "p", "o", "r", "t", ".", "T", "X", "T">>, <<"a", ".", "t", "x", "t">>,
     <<"a", ".", "m", "d">>, <<"a", ".", "r", "t", "f">>,
     <<"a", ".", "b", "i", "n", ".", "t", "x", "t">>}
ImageNames ==
    {<<"p", "h", "o", "t", "o", ".", "P", "N", "G">>, <<"a", ".", "j", "p", "g">>,
     <<"a", ".", "j", "p", "e", "g">>, <<"a", ".", "p", "n", "g">>,
     <<"a", ".", "g", "i", "f">>, <<"a", ".", "w", "e", "b", "p">>,
     <<"a", ".", "J", "p", "g">>}
VideoNames ==
    {<<"c", "l", "i", "p", ".", "m", "k", "v">>, <<"a", ".", "m", "p", "4">>,
     <<"a", ".", "m", "o", "v">>, <<"a", ".", "a", "v", "i">>, <<"a", ".", "m", "k", "v">>}

ExtensionModality(written) ==
    CASE written \in TextNames -> "text"
      [] written \in ImageNames -> "image"
      [] written \in VideoNames -> "video"
      [] OTHER -> "null"

\* C21: determineFileType returns the modality of the declared type when that
\* type starts with text/, image/ or video/, whatever the name; otherwise the
\* modality the extension table gives for the lower-cased extension of the
\* name ("report.TXT" text, "photo.PNG" image, "clip.mkv" video), and null for
\* every other file ("data.bin"); uri and size play no part.
C21_Modality ==
    Classified =>
        LET file == util.input
            declared == DeclaredModality(file.type)
        IN /\ declared # "null" => util.output = declared
           /\ declared = "null" => util.output = ExtensionModality(file.name.written)
           /\ (declared = "null" /\ file.name.written = <<"r", "e", "p", "o", "r", "t", ".", "T", "X", "T">>)
                 => util.output = "text"
           /\ (declared = "null" /\ file.name.written = <<"p", "h", "o", "t", "o", ".", "P", "N", "G">>)
                 => util.output = "image"
           /\ (declared = "null" /\ file.name.written = <<"c", "l", "i", "p", ".", "m", "k", "v">>)
                 => util.output = "video"
           /\ (declared = "null" /\ file.name.written = <<"d", "a", "t", "a", ".", "b", "i", "n">>)
                 => util.output = "null"

\* "report.TXT" declared as application/pdf was classified as text
C21_Witness ==
    /\ Classified
    /\ util.input.type = "application/pdf"
    /\ util.input.name.written = <<"r", "e", "p", "o", "r", "t", ".", "T", "X", "T">>
    /\ util.output = "text"

\* ------------------------------------------------------------------ claims on searchFiles

\* the limit an argument list of searchFiles asks for
LimitAsked(args) == IF Len(args) = 1 THEN 20 ELSE args[2]

\* C22: a call of searchFiles(query, limit) ends in one of two ways: it fails
\* with the wrapped error exactly when the text model or the store is not
\* initialized, and returns nothing then; or it returns the very sequence
\* searchByVector has just returned on the same store for the text embedding
\* of the query, the limit asked for (20 when none is given) and threshold 0.5.
C22_AllOrFailure ==
    [][(last'.op = "searchFiles" /\ last' # last) =>
          /\ last'.err \in {ErrNone, ErrSearchFiles}
          /\ (last'.err = ErrSearchFiles) <=> (~textSession \/ ~database \/ ~itemsCollection)
          /\ last'.err = ErrSearchFiles => last'.list = <<>>
          /\ ( /\ last'.err = ErrNone
               /\ last.op = "searchByVector"
               /\ last.err = ErrNone
               /\ last.query.queryEmbedding
                     = generateDeterministicEmbedding(last'.query.args[1])
               /\ last.query.limit = LimitAsked(last'.query.args)
               /\ last.query.threshold = 30
               /\ last.query.exposesDistance = last'.query.exposesDistance )
             => last'.list = last.list]_vars

\* searchFiles("cat") returned two records of a store of two, both within 0.5
C22_Witness ==
    /\ last.op = "searchFiles"
    /\ last.err = ErrNone
    /\ last.query.args = <<"cat">>
    /\ Len(docs) = 2
    /\ Len(last.list) = 2

====
